---- MODULE Spec2Model ----
(***************************************************************************)
(* Delta/differential loader of src/delta_loader.py: LoadState persistence, *)
(* DeltaLoader.detect_changes and DeltaLoader.load_delta_to_staging, driven *)
(* the way load_entity_incrementally drives them (detect, then load).      *)
(***************************************************************************)
EXTENDS Integers, Sequences, FiniteSets, TLC

\* ------------------------------------------------------------------ bounds
\* Two kinds of workload are explored: wide ones (few runs over snapshots of
\* several rows and keys) and a deep one (more runs over snapshots of one key).
WideRuns == 2       \* detect_changes calls of the wide workload
WideRows == 2       \* rows per CSV snapshot of the wide workload
WideIds == 2        \* distinct id values of the wide workload
DeepRuns == 4       \* detect_changes calls of the deep workload
DeepRows == 1       \* rows per CSV snapshot of the deep workload
DeepIds == 1        \* distinct id values of the deep workload
CompositeIds == 1   \* distinct id values under the two-column primary key
MaxFileOps == 1     \* snapshot files written or removed between two runs
MaxRetry == 3       \* largest retry argument of execute_query / execute_workflow
PipelineRuns == 3   \* process_entity calls and direct loader runs beside them
MaxSaves == 2       \* LoadState.save calls before the state is loaded back

\* An entity is configured with its primary key: a single-column key over
\* (id, name) or a two-column key over (id, sub, name).
Workloads ==
    {[runs |-> WideRuns, rows |-> WideRows, ids |-> WideIds, primary_keys |-> <<"id">>],
     [runs |-> WideRuns, rows |-> WideRows, ids |-> CompositeIds,
      primary_keys |-> <<"id", "sub">>],
     [runs |-> DeepRuns, rows |-> DeepRows, ids |-> DeepIds, primary_keys |-> <<"id">>]}

\* ------------------------------------------------------------- input pools
Paths == {"p1", "p2"}

\* pandas reads a missing cell as float NaN; "<NA>" is itself one of read_csv's
\* NA markers, so it never occurs as a string value and can stand for NaN.
NaN == "<NA>"

IdVals == <<"1", "2", "3">>
SubVals == {"a", NaN}
NameVals == {"A", "B"}

ColVals(c, ids) ==
    IF c = "id" THEN {IdVals[i] : i \in 1..(IF ids < Len(IdVals) THEN ids ELSE Len(IdVals))}
    ELSE IF c = "sub" THEN SubVals ELSE NameVals

RowsOver(cols, ids) ==
    {r \in [cols -> {IdVals[i] : i \in 1..Len(IdVals)} \cup SubVals \cup NameVals] :
        \A c \in cols : r[c] \in ColVals(c, ids)}

SeqsUpTo(S, n) == UNION {[1..k -> S] : k \in 0..n}

\* A CSV file as pd.read_csv(..., dtype=object) returns it: columns and rows.
NoFile == [exists |-> FALSE, columns |-> {}, rows |-> <<>>]

\* The snapshots an extraction can write for an entity keyed by pks: with or
\* without the non-key column.
ColumnSets(pks) == {{pks[i] : i \in 1..Len(pks)} \cup {"name"},
                    {pks[i] : i \in 1..Len(pks)}}
\* A file pd.read_csv cannot parse: an empty file has no header line.
EmptyFile == [exists |-> TRUE, columns |-> {}, rows |-> <<>>]

SnapshotsOf(pks, w) ==
    UNION {{[exists |-> TRUE, columns |-> cols, rows |-> rs] :
               rs \in SeqsUpTo(RowsOver(cols, w.ids), w.rows)} : cols \in ColumnSets(pks)}
    \cup {EmptyFile}
Snapshots == [w \in Workloads |-> SnapshotsOf(w.primary_keys, w)]

\* -------------------------------------------------------------- sequences
Range(s) == {s[i] : i \in 1..Len(s)}

RECURSIVE SeqOfSet(_)
SeqOfSet(S) == IF S = {} THEN <<>>
               ELSE LET x == CHOOSE y \in S : TRUE IN <<x>> \o SeqOfSet(S \ {x})

Orderings(S) == {s \in [1..Cardinality(S) -> S] : Range(s) = S}

RECURSIVE Flatten(_)
Flatten(ss) == IF ss = <<>> THEN <<>> ELSE Head(ss) \o Flatten(Tail(ss))

\* ------------------------------------------------------------------ state
VARIABLES
    files,          \* file system: path -> CSV snapshot or NoFile
    state_dir,      \* the state directory: file name -> LoadState or NoState
    workload,       \* the bounds of the explored workload
    primary_keys,   \* the entity's configured primary-key columns
    schema_columns, \* the entity's configured expected columns
    to_sql_commits, \* whether DataFrame.to_sql commits the rows it writes
    loader,         \* the DeltaLoader instance in use (self.previous_state)
    delta,          \* the DeltaResult returned and not yet loaded
    call,           \* the last detect_changes call and how its delta was loaded
    staging,        \* rows of the staging table
    next_rid,       \* storage identity of the next inserted staging row
    clock,          \* datetime.now()
    runs,           \* detect_changes calls made
    fileops,        \* snapshot files written or removed since the last run
    fingerprinted,  \* the last two records handed to compute_record_fingerprint
    pipeline,       \* what UnifiedPipeline(...) left: the stage list or the error
    context,        \* the context dict of the last process_entity call
    query,          \* the last execute_query / execute_workflow call
    persisted       \* the last LoadState saved and loaded back, with its directory

config == <<workload, primary_keys, schema_columns, to_sql_commits>>
pipeline_vars == <<pipeline, context>>
vars == <<files, state_dir, config, loader, delta, call, staging,
          next_rid, clock, runs, fileops, fingerprinted, pipeline_vars, query,
          persisted>>

\* --------------------------------------------------------------- LoadState
\* The metadata dict is the set of its (key, value) items.
NoState == [exists |-> FALSE, last_load_timestamp |-> 0, last_csv_path |-> "",
            last_row_count |-> 0, column_schema |-> {}, primary_keys |-> <<>>,
            metadata |-> {}]

LoadState(ts, path, n, schema, pks, meta) ==
    [exists |-> TRUE, last_load_timestamp |-> ts, last_csv_path |-> path,
     last_row_count |-> n, column_schema |-> schema, primary_keys |-> pks,
     metadata |-> meta]

\* field(default_factory=dict)
NoMeta == {}

\* The entity type of the loaders of this pipeline, and the entity types with a
\* state file in the same directory.
entity_type == "deals"
EntityTypes == {"deals", "communications"}

\* Faulty variant: one state file for all entity types.
state_file_shared(e) == "load_state.json"
\* state_dir / f"{entity_type}_load_state.json"
state_file(e) == e \o "_load_state.json"

StateFiles == {state_file(e) : e \in EntityTypes}

\* The LoadState another entity type's pipeline has saved.
OtherState == LoadState(0, "communications.csv", 1, {"id"}, <<"id">>, NoMeta)

\* LoadState.save: the file of the entity type is rewritten.
save(dir, e, st) == [dir EXCEPT ![state_file(e)] = st]

\* LoadState.load: the content of the file of the entity type, None without it.
load(dir, e) == dir[state_file(e)]

\* The LoadState persisted for the loaders' entity type.
state_store == load(state_dir, entity_type)

\* -------------------------------------------------------------- DeltaResult
\* new_records and modified_records are DataFrames (sequences of rows);
\* deleted_record_ids and unchanged_record_ids are lists without repetition
\* built from sets of keys, kept here as sets.
NoDelta == [exists |-> FALSE, new_records |-> <<>>, modified_records |-> <<>>,
            deleted_record_ids |-> {}, unchanged_record_ids |-> {}]

DeltaResult(new, modified, deleted, unchanged) ==
    [exists |-> TRUE, new_records |-> new, modified_records |-> modified,
     deleted_record_ids |-> deleted, unchanged_record_ids |-> unchanged]

has_changes(d) ==
    \/ Len(d.new_records) > 0
    \/ Len(d.modified_records) > 0
    \/ Cardinality(d.deleted_record_ids) > 0

\* ------------------------------------------------------------ fingerprints
\* Python's sorted() order of the column names.
ColOrder == <<"id", "name", "sub">>

\* repr() of a cell inside str(list of tuples): a str is quoted, NaN prints nan.
Repr(v) == IF v = NaN THEN "nan" ELSE "'" \o v \o "'"

RECURSIVE ItemsStr(_, _)
ItemsStr(row, cols) ==
    IF cols = <<>> THEN ""
    ELSE LET c == Head(cols)
             rest == ItemsStr(row, Tail(cols))
         IN IF c \in DOMAIN row
            THEN "('" \o c \o "', " \o Repr(row[c]) \o ")"
                 \o (IF rest = "" THEN "" ELSE ", " \o rest)
            ELSE rest

\* hashlib.md5(...).hexdigest(), taken as collision-free: the digest stands
\* for the string it was computed from.
md5_hexdigest(s) == <<"md5", s>>

compute_record_fingerprint(row) == md5_hexdigest("[" \o ItemsStr(row, ColOrder) \o "]")

\* Faulty variant: the items are not sorted.
sorted_as_declared(items) == items
\* sorted(row.items()) of a pd.Series given as its (label, value) items in the
\* order the fields are declared: labels are distinct, so their order decides.
sorted(items) ==
    Flatten([k \in 1..Len(ColOrder) |->
                SelectSeq(items, LAMBDA it : it[1] = ColOrder[k])])

\* str() of a list of (label, value) tuples.
RECURSIVE str_items(_)
str_items(items) ==
    IF items = <<>> THEN ""
    ELSE "('" \o Head(items)[1] \o "', " \o Repr(Head(items)[2]) \o ")"
         \o (IF Tail(items) = <<>> THEN "" ELSE ", " \o str_items(Tail(items)))

\* hashlib.md5(str(sorted(row.items())).encode()).hexdigest()
series_fingerprint(items) == md5_hexdigest("[" \o str_items(sorted(items)) \o "]")

\* ----------------------------------------------------------- composite key
\* Series.astype(str): NaN becomes the string 'nan'.
AsStr(v) == IF v = NaN THEN "nan" ELSE v

RECURSIVE JoinKey(_, _)
JoinKey(row, pks) ==
    IF Len(pks) = 1 THEN AsStr(row[pks[1]])
    ELSE AsStr(row[pks[1]]) \o "_" \o JoinKey(row, Tail(pks))

make_composite_key(row, pks) ==
    IF Len(pks) = 1 THEN AsStr(row[pks[1]]) ELSE JoinKey(row, pks)

KeysOf(rows, pks) == {make_composite_key(rows[i], pks) : i \in 1..Len(rows)}

RowsWithKey(rows, pks, key) ==
    SelectSeq(rows, LAMBDA r : make_composite_key(r, pks) = key)

\* Faulty variant: the last row under the key is taken (.iloc[-1]).
LastWithKey(rows, pks, key) ==
    RowsWithKey(rows, pks, key)[Len(RowsWithKey(rows, pks, key))]
\* df[df['_composite_key'] == key][...].iloc[0]
FirstWithKey(rows, pks, key) == Head(RowsWithKey(rows, pks, key))

\* ---------------------------------------------------------- detect_changes
\* load: "none" until load_delta_to_staging is called, "running" between its
\* phases, then "complete", "skipped" or "failed"; phases logs the phases run,
\* todo the phases still to run, failed the phase that raised.
NoCall == [current_csv |-> "", outcome |-> "none", branch |-> "none", load |-> "none",
           phases |-> <<>>, todo |-> <<>>, failed |-> "none"]

\* Faulty variant: the difference is taken the wrong way round (extra columns).
missing_cols_reversed(schema, current) == current.columns \ schema
\* set(schema_columns) - set(current_df.columns)
missing_cols(schema, current) == schema \ current.columns

\* Faulty variant: the previous keys are not subtracted.
new_keys_all_current(current_keys, previous_keys) == current_keys
new_keys(current_keys, previous_keys) == current_keys \ previous_keys
deleted_keys(current_keys, previous_keys) == previous_keys \ current_keys
common_keys(current_keys, previous_keys) == current_keys \cap previous_keys

\* current_df[current_with_fp['_composite_key'].isin(new_keys)]
new_records(current, pks, nk) ==
    SelectSeq(current.rows, LAMBDA r : make_composite_key(r, pks) \in nk)

\* the test of the loop over common_keys: the fingerprints of the first row
\* under the key in each snapshot differ
is_modified(current, previous, pks, key) ==
    compute_record_fingerprint(FirstWithKey(current.rows, pks, key))
        # compute_record_fingerprint(FirstWithKey(previous.rows, pks, key))

\* pd.concat of current_df[composite_key == key] over the modified keys, in
\* the iteration order of the set common_keys
modified_records(current, previous, pks, order) ==
    Flatten([i \in 1..Len(order) |->
                IF is_modified(current, previous, pks, order[i])
                THEN RowsWithKey(current.rows, pks, order[i])
                ELSE <<>>])

\* Faulty variant: every common key is reported unchanged.
unchanged_keys_all_common(current, previous, pks, ck) == ck
unchanged_keys(current, previous, pks, ck) ==
    {k \in ck : ~is_modified(current, previous, pks, k)}

\* The DeltaResult of the first-run and the missing-previous branches.
AllNew(current) == DeltaResult(current.rows, <<>>, {}, {})

\* Lines 285-361: the diff of two readable snapshots.
Diff(current, previous, pks, order) ==
    LET cur_keys == KeysOf(current.rows, pks)
        prev_keys == KeysOf(previous.rows, pks)
    IN DeltaResult(new_records(current, pks, new_keys(cur_keys, prev_keys)),
                   modified_records(current, previous, pks, order),
                   deleted_keys(cur_keys, prev_keys),
                   unchanged_keys(current, previous, pks,
                                  common_keys(cur_keys, prev_keys)))

\* Faulty variant: the row count of the saved LoadState is left at zero.
FirstRunState_no_count(current_csv, current, schema, pks, now) ==
    LoadState(now, current_csv, 0, schema, pks, NoMeta)
\* The LoadState saved by the first-run branch (lines 251-260).
FirstRunState(current_csv, current, schema, pks, now) ==
    LoadState(now, current_csv, Len(current.rows), schema, pks, NoMeta)

\* The LoadState saved after a diff (lines 339-353).
DiffState(current_csv, current, schema, pks, now, d) ==
    LoadState(now, current_csv, Len(current.rows), schema, pks,
              {<<"new_count", Len(d.new_records)>>,
               <<"modified_count", Len(d.modified_records)>>,
               <<"deleted_count", Cardinality(d.deleted_record_ids)>>})

\* Faulty variant: the existence test is skipped and the previous CSV is read.
previous_exists_unchecked(fs, prev_state) == TRUE
\* Path(previous_csv).exists()
previous_exists(fs, prev_state) == fs[prev_state.last_csv_path].exists

\* Faulty variant: a file that cannot be parsed is read as a frame without rows.
read_csv_lenient(f) == IF ~f.exists THEN "FileNotFoundError" ELSE "ok"
\* How pd.read_csv(path, sep=separator, dtype=object) ends.
read_csv(f) ==
    IF ~f.exists THEN "FileNotFoundError"
    ELSE IF f.columns = {} THEN "EmptyDataError"
    ELSE "ok"

\* Every way one detect_changes call can end: the exception raised or the
\* DeltaResult returned, and the LoadState left in the state store.
DetectOutcomes(current_csv, schema, fs, self, pks, store, now) ==
    LET current == fs[current_csv]
        prev_state == self.previous_state
        Raise(e) == [outcome |-> e, branch |-> "none", delta |-> NoDelta,
                     saved |-> FALSE, state |-> store]
    IN IF read_csv(current) # "ok" THEN {Raise(read_csv(current))}
       ELSE IF missing_cols(schema, current) # {} THEN {Raise("ValueError")}
       ELSE IF ~prev_state.exists
       THEN {[outcome |-> "ok", branch |-> "first_run", delta |-> AllNew(current),
              saved |-> TRUE, state |-> FirstRunState(current_csv, current, schema, pks, now)]}
       ELSE IF ~previous_exists(fs, prev_state)
       THEN {[outcome |-> "ok", branch |-> "previous_missing",
              delta |-> AllNew(current), saved |-> FALSE, state |-> store]}
       ELSE LET previous == fs[prev_state.last_csv_path]
            IN IF read_csv(previous) # "ok" THEN {Raise(read_csv(previous))}
               ELSE IF ~(Range(pks) \subseteq current.columns \cap previous.columns)
               THEN {Raise("KeyError")}
               ELSE {LET d == Diff(current, previous, pks, order)
                     IN [outcome |-> "ok", branch |-> "diff", delta |-> d,
                         saved |-> TRUE, state |-> DiffState(current_csv, current, schema,
                                             pks, now, d)] :
                        order \in Orderings(common_keys(KeysOf(current.rows, pks),
                                                        KeysOf(previous.rows, pks)))}

\* --------------------------------------------------- load_delta_to_staging
StagingRow(rid, data, ts, load_type) ==
    [rid |-> rid, data |-> data, _load_timestamp |-> ts, _load_type |-> load_type,
     _is_deleted |-> FALSE]

\* DataFrame.to_sql(..., if_exists='append'): one new staging row per record.
to_sql(table, rid0, records, ts, load_type) ==
    table \cup {StagingRow(rid0 + i - 1, records[i], ts, load_type) :
                   i \in 1..Len(records)}

\* delta.modified_records[pk_col].tolist()
modified_ids(d, pk_col) == {d.modified_records[i][pk_col] : i \in 1..Len(d.modified_records)}

\* DELETE FROM staging WHERE pk_col = ANY(ids)
delete_where(table, pk_col, ids) == {r \in table : r.data[pk_col] \notin ids}

\* Faulty variant: the UPDATE sets the flag and leaves _load_type as it was.
soft_delete_where_flag_only(table, pk_col, ids, ts) ==
    {IF r.data[pk_col] \in ids
     THEN [r EXCEPT !._is_deleted = TRUE, !._load_timestamp = ts]
     ELSE r : r \in table}
\* UPDATE staging SET _is_deleted = TRUE, _load_timestamp = ts,
\*                    _load_type = 'delete' WHERE pk_col = ANY(ids)
soft_delete_where(table, pk_col, ids, ts) ==
    {IF r.data[pk_col] \in ids
     THEN [r EXCEPT !._is_deleted = TRUE, !._load_timestamp = ts, !._load_type = "delete"]
     ELSE r : r \in table}

\* Lines 390-412.
insert_phase(table, rid0, d, ts) ==
    IF Len(d.new_records) > 0 THEN to_sql(table, rid0, d.new_records, ts, "insert")
    ELSE table

\* Lines 414-450; pk_col = self.primary_keys[0].
update_phase(table, rid0, d, pks, ts) ==
    IF Len(d.modified_records) > 0
    THEN to_sql(delete_where(table, pks[1], modified_ids(d, pks[1])),
                rid0, d.modified_records, ts, "update")
    ELSE table

\* Lines 452-472; pk_col = self.primary_keys[0].
delete_phase(table, d, pks, ts) ==
    IF Cardinality(d.deleted_record_ids) > 0
    THEN soft_delete_where(table, pks[1], d.deleted_record_ids, ts)
    ELSE table

\* Faulty variant: the load timestamp of the unchanged rows is refreshed on every load.
load_delta_touching_unchanged(table, rid0, d, pks, ts) ==
    delete_phase(
        update_phase(insert_phase(
            {IF AsStr(r.data[pks[1]]) \in d.unchanged_record_ids
             THEN [r EXCEPT !._load_timestamp = ts] ELSE r : r \in table},
            rid0, d, ts), rid0 + Len(d.new_records), d, pks, ts),
        d, pks, ts)
\* The staging table after a load_delta_to_staging(delta) call all of whose
\* phases are committed; the datetime.now() of its phases is one reading ts of
\* the clock.
load_delta_to_staging(table, rid0, d, pks, ts) ==
    IF ~has_changes(d) THEN table
    ELSE delete_phase(
             update_phase(insert_phase(table, rid0, d, ts),
                          rid0 + Len(d.new_records), d, pks, ts),
             d, pks, ts)

\* The staging table is what is committed. A psycopg2 connection works on its
\* own view of the table: commit() publishes the view, and a connection handed
\* back to the pool by get_connection with its transaction open loses it.
conn_commit(table, view) == view
putconn(table, view) == table

\* pandas commits the rows to_sql wrote or leaves the commit to the owner of
\* the connection, depending on the connection it is given.
to_sql_done(table, view, commits) == IF commits THEN conn_commit(table, view) ELSE table

\* Lines 397-410: the with-block of the insert phase holds no conn.commit().
insert_phase_committed(table, rid0, d, ts, commits) ==
    putconn(to_sql_done(table, insert_phase(table, rid0, d, ts), commits),
            insert_phase(table, rid0, d, ts))

\* Lines 421-448: DELETE and to_sql on one connection, then conn.commit().
update_phase_committed(table, rid0, d, pks, ts, commits) ==
    conn_commit(to_sql_done(table, update_phase(table, rid0, d, pks, ts), commits),
                update_phase(table, rid0, d, pks, ts))

\* Lines 456-470: UPDATE, then conn.commit().
delete_phase_committed(table, d, pks, ts) ==
    conn_commit(table, delete_phase(table, d, pks, ts))

\* The statement of a phase that can raise.
Statements == [insert |-> {"to_sql"}, update |-> {"DELETE", "to_sql", "commit"},
               delete |-> {"UPDATE", "commit"}]

\* Faulty variant: the DELETE of the update phase is committed on its own.
update_phase_raised_after_delete(table, d, pks, at) ==
    IF at = "DELETE" THEN table ELSE delete_where(table, pks[1], modified_ids(d, pks[1]))
\* The table left by an update phase whose statement `at` raised: the
\* with-block is left before conn.commit() (line 448).
update_phase_raised(table, d, pks, at) ==
    putconn(table, IF at = "DELETE" THEN table
                   ELSE delete_where(table, pks[1], modified_ids(d, pks[1])))

\* The table left by an insert or a soft-delete phase that raised.
phase_raised(table) == putconn(table, table)

\* Faulty variant: the records are flagged deleted before they are replaced.
phases_of_delete_first(d) ==
    SelectSeq(<<"delete", "insert", "update">>,
              LAMBDA ph : \/ ph = "insert" /\ Len(d.new_records) > 0
                          \/ ph = "update" /\ Len(d.modified_records) > 0
                          \/ ph = "delete" /\ Cardinality(d.deleted_record_ids) > 0)
\* The phases one call runs, in the order of the three len(...) > 0 tests
\* (lines 391, 415, 453).
phases_of(d) ==
    SelectSeq(<<"insert", "update", "delete">>,
              LAMBDA ph : \/ ph = "insert" /\ Len(d.new_records) > 0
                          \/ ph = "update" /\ Len(d.modified_records) > 0
                          \/ ph = "delete" /\ Cardinality(d.deleted_record_ids) > 0)

\* ----------------------------------------------------------------- actions
NoFingerprints == [a |-> <<>>, b |-> <<>>, fa |-> <<>>, fb |-> <<>>, done |-> FALSE]

NoLoader == [exists |-> FALSE, previous_state |-> NoState]
\* A state file that does not exist, and what LoadState.load returns for it.
NoStateFile == [exists |-> FALSE, json |-> <<>>]
None == [exists |-> FALSE]

\* Nothing saved in the state directory, nothing loaded back.
NoPersisted == [dir |-> [f \in StateFiles |-> NoStateFile],
                saved |-> [e \in EntityTypes |-> None],
                saves |-> 0, called |-> FALSE, entity_type |-> "",
                loaded |-> None]


\* No execute_query or execute_workflow call yet. attempt is the counter of
\* the retry loop, attempts the outcome of every attempt made, pending the
\* statements executed on the connection and neither committed nor rolled
\* back, committed the executions of the query that were committed.
NoQuery ==
    [fn |-> "none", status |-> "idle", retry |-> 0, fetch |-> FALSE, attempt |-> 0,
     attempts |-> <<>>, result |-> "none", error |-> "none", pending |-> 0,
     committed |-> 0]

\* No UnifiedPipeline(...) call yet.
NoPipeline == [called |-> FALSE, stages |-> <<>>, error |-> "none"]

\* No process_entity call yet. stage is the position of the loop over the
\* stages (0 outside a call), executed the stages whose execute was called,
\* csv the file at context['csv_path'], staging_load the branch the staging
\* stage took, prior how the call before this one ended.
NoContext ==
    [running |-> FALSE, returned |-> FALSE, stage |-> 0, executed |-> <<>>,
     error |-> "none", failed_stage |-> "none", csv |-> NoFile,
     cleaned_df |-> NoFile, has_delta |-> FALSE, delta |-> NoDelta,
     load_df |-> <<>>, staging_load |-> "none", prior |-> "none"]

Init ==
    /\ workload \in Workloads
    /\ primary_keys = workload.primary_keys
    /\ schema_columns \in ColumnSets(primary_keys)
    /\ to_sql_commits \in BOOLEAN
    /\ files = [p \in Paths |-> NoFile]
    /\ state_dir = [f \in StateFiles |->
                        IF f = state_file(entity_type) THEN NoState ELSE OtherState]
    /\ loader = NoLoader
    /\ delta = NoDelta
    /\ call = NoCall
    /\ staging = {}
    /\ next_rid = 1
    /\ clock = 1
    /\ runs = 0
    /\ fileops = 0
    /\ fingerprinted = NoFingerprints
    /\ pipeline = NoPipeline
    /\ context = NoContext
    /\ query = NoQuery
    /\ persisted = NoPersisted

\* The extraction writes (or overwrites) a CSV snapshot.
WriteSnapshot(p) ==
    /\ ~delta.exists
    /\ runs < workload.runs
    /\ fileops < MaxFileOps
    /\ \E s \in Snapshots[workload] : files' = [files EXCEPT ![p] = s]
    /\ files' # files
    /\ fileops' = fileops + 1
    /\ UNCHANGED <<state_dir, config, persisted, fingerprinted, pipeline_vars, query, loader, delta, call, staging,
                   next_rid, clock, runs>>

\* A snapshot file is removed from storage.
DeleteSnapshot(p) ==
    /\ ~delta.exists
    /\ runs < workload.runs
    /\ fileops < MaxFileOps
    /\ files[p].exists
    /\ files' = [files EXCEPT ![p] = NoFile]
    /\ fileops' = fileops + 1
    /\ UNCHANGED <<state_dir, config, persisted, fingerprinted, pipeline_vars, query, loader, delta, call, staging,
                   next_rid, clock, runs>>

\* DeltaLoader.__init__: self.previous_state = LoadState.load(entity_type).
NewLoader ==
    /\ ~delta.exists
    /\ runs < workload.runs
    /\ loader # [exists |-> TRUE, previous_state |-> state_store]
    /\ loader' = [exists |-> TRUE, previous_state |-> state_store]
    /\ UNCHANGED <<files, state_dir, config, persisted, fingerprinted, pipeline_vars, query, delta, call, staging,
                   next_rid, clock, runs, fileops>>

\* DeltaLoader.detect_changes(current_csv, schema_columns).
DetectChanges(current_csv) ==
    /\ loader.exists
    /\ ~delta.exists
    /\ runs < workload.runs
    /\ \E res \in DetectOutcomes(current_csv, schema_columns, files, loader,
                                 primary_keys, state_store, clock) :
          /\ state_dir' = IF res.saved THEN save(state_dir, entity_type, res.state)
                          ELSE state_dir
          /\ delta' = res.delta
          /\ call' = [NoCall EXCEPT !.current_csv = current_csv,
                                      !.outcome = res.outcome, !.branch = res.branch]
    /\ clock' = clock + 1
    /\ runs' = runs + 1
    /\ fileops' = 0
    /\ UNCHANGED <<files, config, persisted, fingerprinted, pipeline_vars, query, loader, staging, next_rid>>

\* The phases the pending call has still to run.
Todo == IF call.load = "none" THEN phases_of(delta) ELSE call.todo

\* The bookkeeping of a phase that finished: the call returns after its last
\* phase.
PhaseDone(ph) ==
    /\ call' = [call EXCEPT !.phases = Append(call.phases, ph),
                            !.todo = Tail(Todo),
                            !.load = IF Tail(Todo) = <<>> THEN "complete" ELSE "running"]
    /\ delta' = IF Tail(Todo) = <<>> THEN NoDelta ELSE delta
    /\ clock' = IF Tail(Todo) = <<>> THEN clock + 1 ELSE clock

\* Faulty variant: the exception of a phase is swallowed and the later phases run.
PhaseRaised_swallowed(ph) ==
    /\ call' = [call EXCEPT !.phases = Append(call.phases, ph), !.todo = Tail(Todo),
                            !.load = "failed", !.failed = ph]
    /\ delta' = IF Tail(Todo) = <<>> THEN NoDelta ELSE delta
    /\ clock' = IF Tail(Todo) = <<>> THEN clock + 1 ELSE clock
\* The bookkeeping of a phase that raised: the exception leaves
\* load_delta_to_staging, whose later phases are not run.
PhaseRaised(ph) ==
    /\ call' = [call EXCEPT !.phases = Append(call.phases, ph), !.todo = <<>>,
                            !.load = "failed", !.failed = ph]
    /\ delta' = NoDelta
    /\ clock' = clock + 1

\* load_delta_to_staging(delta) on a DeltaResult without changes (lines 382-384).
LoadDelta ==
    /\ delta.exists
    /\ call.load = "none"
    /\ ~has_changes(delta)
    /\ staging' = load_delta_to_staging(staging, next_rid, delta, primary_keys, clock)
    /\ call' = [call EXCEPT !.load = "skipped"]
    /\ delta' = NoDelta
    /\ clock' = clock + 1
    /\ UNCHANGED <<files, state_dir, config, persisted, fingerprinted, pipeline_vars, query, loader, next_rid, runs, fileops>>

\* Lines 390-412: the insert phase, which completes or raises.
InsertPhase ==
    /\ delta.exists
    /\ Todo # <<>>
    /\ Head(Todo) = "insert"
    /\ \/ /\ staging' = insert_phase_committed(staging, next_rid, delta, clock,
                                                to_sql_commits)
          /\ next_rid' = next_rid + Len(delta.new_records)
          /\ PhaseDone("insert")
       \/ /\ staging' = phase_raised(staging)
          /\ next_rid' = next_rid
          /\ PhaseRaised("insert")
    /\ UNCHANGED <<files, state_dir, config, persisted, fingerprinted, pipeline_vars, query, loader, runs, fileops>>

\* Lines 414-450: the update phase, which completes or raises at one of its
\* statements.
UpdatePhase ==
    /\ delta.exists
    /\ Todo # <<>>
    /\ Head(Todo) = "update"
    /\ \/ /\ staging' = update_phase_committed(staging, next_rid, delta, primary_keys,
                                                clock, to_sql_commits)
          /\ next_rid' = next_rid + Len(delta.modified_records)
          /\ PhaseDone("update")
       \/ /\ \E at \in Statements["update"] :
                staging' = update_phase_raised(staging, delta, primary_keys, at)
          /\ next_rid' = next_rid
          /\ PhaseRaised("update")
    /\ UNCHANGED <<files, state_dir, config, persisted, fingerprinted, pipeline_vars, query, loader, runs, fileops>>

\* Lines 452-472: the soft-delete phase, which completes or raises.
DeletePhase ==
    /\ delta.exists
    /\ Todo # <<>>
    /\ Head(Todo) = "delete"
    /\ \/ /\ staging' = delete_phase_committed(staging, delta, primary_keys, clock)
          /\ PhaseDone("delete")
       \/ /\ staging' = phase_raised(staging)
          /\ PhaseRaised("delete")
    /\ UNCHANGED <<files, state_dir, config, persisted, fingerprinted, pipeline_vars, query, loader, next_rid, runs, fileops>>

Next ==
    \/ \E p \in Paths : WriteSnapshot(p)
    \/ \E p \in Paths : DeleteSnapshot(p)
    \/ NewLoader
    \/ \E p \in Paths : DetectChanges(p)
    \/ LoadDelta
    \/ InsertPhase
    \/ UpdatePhase
    \/ DeletePhase

Spec == Init /\ [][Next]_vars

\* --------------------------------------------- the incremental-load discipline
\* load_entity_incrementally run after run: every run constructs its own
\* DeltaLoader, the snapshot the persisted LoadState references is neither
\* overwritten nor removed, and primary keys are unique within a snapshot.
UniqueSnapshots ==
    [w \in Workloads |->
        {s \in Snapshots[w] :
            \A i, j \in 1..Len(s.rows) :
                make_composite_key(s.rows[i], w.primary_keys)
                    = make_composite_key(s.rows[j], w.primary_keys) => i = j}]

WriteRetainingSnapshot(p) ==
    /\ ~delta.exists
    /\ runs < workload.runs
    /\ fileops < MaxFileOps
    /\ ~(state_store.exists /\ state_store.last_csv_path = p)
    /\ \E s \in UniqueSnapshots[workload] : files' = [files EXCEPT ![p] = s]
    /\ files' # files
    /\ fileops' = fileops + 1
    /\ UNCHANGED <<state_dir, config, persisted, fingerprinted, pipeline_vars, query, loader, delta, call, staging,
                   next_rid, clock, runs>>

FreshDetectChanges(current_csv) ==
    /\ loader.previous_state = state_store
    /\ DetectChanges(current_csv)

NextIncremental ==
    \/ \E p \in Paths : WriteRetainingSnapshot(p)
    \/ NewLoader
    \/ \E p \in Paths : FreshDetectChanges(p)
    \/ LoadDelta
    \/ InsertPhase
    \/ UpdatePhase
    \/ DeletePhase

SpecIncremental == Init /\ [][NextIncremental]_vars

\* ------------------------------------------------- fingerprints of records
\* The records of the fingerprint runs: every declaration order of every set
\* of fields, over FingerprintVals.
FingerprintVals == {"1", NaN}
FingerprintFields == {"id", "name", "sub"}
SeriesPool ==
    UNION {{[i \in 1..Len(o) |-> <<o[i], v[o[i]]>>] :
               o \in Orderings(F), v \in [F -> FingerprintVals]} :
           F \in SUBSET FingerprintFields}

InitFingerprint ==
    /\ Init
    /\ workload.runs = DeepRuns
    /\ schema_columns = {"id"}
    /\ to_sql_commits

\* compute_record_fingerprint applied to two records.
Fingerprint ==
    \E a, b \in SeriesPool :
       /\ ~fingerprinted.done
       /\ fingerprinted' = [a |-> a, b |-> b, fa |-> series_fingerprint(a),
                            fb |-> series_fingerprint(b), done |-> TRUE]
       /\ UNCHANGED <<files, state_dir, config, persisted, loader, delta, call, staging,
                      next_rid, clock, runs, fileops, pipeline_vars, query>>

NextFingerprint == Fingerprint

SpecFingerprint == InitFingerprint /\ [][NextFingerprint]_vars

\* ------------------------------------------------------- unified_pipeline
\* The stage classes in the order of the list self.stages (lines 380-387).
StageClasses ==
    <<"UTF8CleaningStage", "DeltaDetectionStage", "StagingLoadStage",
      "AggregationStage", "ProductionLoadStage">>

\* The name each class hands to PipelineStage.__init__(self, name) when it is
\* constructed as in the list: DeltaDetectionStage declares no __init__ and is
\* constructed without arguments, so it hands none.
NoName == "<missing>"
stage_name ==
    [UTF8CleaningStage |-> "UTF-8 Cleaning", DeltaDetectionStage |-> NoName,
     StagingLoadStage |-> "Staging Load", AggregationStage |-> "Aggregation",
     ProductionLoadStage |-> "Production Load"]

\* PipelineStage.__init__(self, name): name is a required positional argument.
PipelineStage_init(name) == IF name = NoName THEN "TypeError" ELSE "ok"

\* The EntityConfig of the entity type (pipeline_config.py): every configured
\* entity has delta loading enabled, the deals aggregate.
enable_delta_loading == TRUE
enable_aggregation == TRUE

\* process_entity's csv_path is read once, by the cleaning stage; temp_csv is
\* Path('temp') / f"{entity_type}_cleaned.csv", the same path in every call.
temp_csv == "p2"

\* UTF8Cleaner.clean_text: the replacement patterns (typographic quotes,
\* accents, control characters) match no value of the pools.
clean_text(v) == v

\* UTF8Cleaner.clean_dataframe over the cells of a frame.
clean_dataframe(df) ==
    [df EXCEPT !.rows = [i \in 1..Len(df.rows) |->
                            [c \in DOMAIN df.rows[i] |-> clean_text(df.rows[i][c])]]]

\* df.to_csv(path, index=False): a header line and one line per row, NaN as
\* the empty field, which read_csv(dtype=object) gives back as NaN.
to_csv(df) == [exists |-> TRUE, columns |-> df.columns, rows |-> df.rows]

\* pd.concat([delta.new_records, delta.modified_records]) or the empty frame.
load_df_of(d) == IF has_changes(d) THEN d.new_records \o d.modified_records ELSE <<>>

\* loader.load_delta_to_staging(delta) run in one piece: to its return, or to
\* the statement of one of its phases that raises.
load_delta_outcomes(table, rid0, d, pks, ts, commits) ==
    LET t1 == insert_phase_committed(table, rid0, d, ts, commits)
        r1 == rid0 + Len(d.new_records)
        t2 == update_phase_committed(t1, r1, d, pks, ts, commits)
        r2 == r1 + Len(d.modified_records)
        t3 == delete_phase_committed(t2, d, pks, ts)
        ph == Range(phases_of(d))
    IN {[table |-> t3, rid |-> r2, raised |-> FALSE]}
       \cup {[table |-> phase_raised(table), rid |-> rid0, raised |-> TRUE] :
                x \in {"insert"} \cap ph}
       \cup {[table |-> update_phase_raised(t1, d, pks, at), rid |-> r1, raised |-> TRUE] :
                at \in IF "update" \in ph THEN Statements["update"] ELSE {}}
       \cup {[table |-> phase_raised(t2), rid |-> r2, raised |-> TRUE] :
                x \in {"delete"} \cap ph}

\* load_df.to_sql(staging_table, conn, if_exists='replace'): the table is
\* dropped and created from the frame, which has no load columns.
to_sql_replace(rid0, records) == {[rid |-> rid0 + i - 1, data |-> records[i]] :
                                     i \in 1..Len(records)}

\* process_entity returns the context. Of a returned context the model keeps
\* what the caller is told of the run (the stages executed, error,
\* failed_stage, the branch of the staging stage), not the frames it carries.
Returns(ctx) ==
    [ctx EXCEPT !.stage = 0, !.running = FALSE, !.returned = TRUE,
                !.csv = NoFile, !.cleaned_df = NoFile, !.delta = NoDelta,
                !.load_df = <<>>]

\* stage.execute(context) returned: the loop goes on to the next stage, and
\* process_entity returns the context after the last one.
StageDone(ctx) ==
    IF ctx.stage < Len(StageClasses)
    THEN [ctx EXCEPT !.executed = Append(@, StageClasses[ctx.stage]),
                     !.stage = ctx.stage + 1]
    ELSE Returns([ctx EXCEPT !.executed = Append(@, StageClasses[ctx.stage])])

\* stage.execute(context) raised e (lines 424-428): error and failed_stage are
\* set, the loop is left and process_entity returns the context. failed_stage
\* is stage.name; the model writes the stage's class for it.
StageRaised(ctx, e) ==
    Returns([ctx EXCEPT !.executed = Append(@, StageClasses[ctx.stage]),
                        !.error = e, !.failed_stage = StageClasses[ctx.stage]])

\* UnifiedPipeline.__init__ (lines 352-390): the stages are constructed in the
\* order of the list, and the first constructor that raises ends the call.
UnifiedPipeline_init ==
    /\ ~pipeline.called
    /\ ~context.running
    /\ ~delta.exists
    /\ LET raising == {i \in 1..Len(StageClasses) :
                          PipelineStage_init(stage_name[StageClasses[i]]) # "ok"}
       IN pipeline' =
             IF raising = {}
             THEN [called |-> TRUE, stages |-> StageClasses, error |-> "none"]
             ELSE [called |-> TRUE, stages |-> <<>>,
                   error |-> PipelineStage_init(stage_name[StageClasses[
                                 CHOOSE i \in raising : \A j \in raising : i <= j]])]
    /\ UNCHANGED <<files, state_dir, config, persisted, loader, delta, call, staging,
                   next_rid, clock, runs, fileops, fingerprinted, context, query>>

\* process_entity (lines 392-418) on a stage list holding the five stages,
\* each constructed with a name: the context is initialised and the loop
\* starts. The file at csv_path is any snapshot, or missing.
process_entity ==
    /\ ~context.running
    /\ ~delta.exists
    /\ runs < PipelineRuns
    /\ \E f \in Snapshots[workload] \cup {NoFile} :
          context' = [NoContext EXCEPT
                         !.running = TRUE, !.stage = 1, !.csv = f,
                         !.prior = IF ~context.returned THEN "none"
                                   ELSE IF context.error = "none" THEN "ok"
                                   ELSE "error"]
    /\ runs' = runs + 1
    /\ UNCHANGED <<files, state_dir, config, persisted, loader, delta, call, staging,
                   next_rid, clock, fileops, fingerprinted, pipeline, query>>

\* UTF8CleaningStage.execute_async (lines 107-138).
UTF8CleaningStage ==
    /\ context.running
    /\ StageClasses[context.stage] = "UTF8CleaningStage"
    /\ context' =
          IF read_csv(context.csv) # "ok" THEN StageRaised(context, read_csv(context.csv))
          ELSE StageDone([context EXCEPT !.cleaned_df = clean_dataframe(context.csv)])
    /\ UNCHANGED <<files, state_dir, config, persisted, loader, delta, call, staging,
                   next_rid, clock, runs, fileops, fingerprinted, pipeline, query>>

\* DeltaDetectionStage.execute_async (lines 144-194): a new DeltaLoader, the
\* cleaned frame written to temp_csv, then detect_changes on temp_csv.
DeltaDetectionStage ==
    /\ context.running
    /\ StageClasses[context.stage] = "DeltaDetectionStage"
    /\ IF ~enable_delta_loading
       THEN /\ context' = StageDone([context EXCEPT !.has_delta = FALSE,
                                        !.load_df = context.cleaned_df.rows])
            /\ UNCHANGED <<files, state_dir, loader, clock>>
       ELSE LET self == [exists |-> TRUE, previous_state |-> state_store]
                fs == [files EXCEPT ![temp_csv] = to_csv(context.cleaned_df)]
            IN /\ loader' = self
               /\ files' = fs
               /\ clock' = clock + 1
               /\ \E res \in DetectOutcomes(temp_csv, schema_columns, fs, self,
                                            primary_keys, state_store, clock) :
                     /\ state_dir' = IF res.saved
                                     THEN save(state_dir, entity_type, res.state)
                                     ELSE state_dir
                     /\ context' =
                           IF res.outcome # "ok" THEN StageRaised(context, res.outcome)
                           ELSE StageDone([context EXCEPT
                                              !.has_delta = TRUE, !.delta = res.delta,
                                              !.load_df = load_df_of(res.delta)])
    /\ UNCHANGED <<config, persisted, delta, call, staging, next_rid, runs, fileops,
                   fingerprinted, pipeline, query>>

\* StagingLoadStage.execute_async (lines 204-238).
StagingLoadStage ==
    /\ context.running
    /\ StageClasses[context.stage] = "StagingLoadStage"
    /\ IF Len(context.load_df) = 0
       THEN /\ context' = StageDone([context EXCEPT !.staging_load = "no_records"])
            /\ UNCHANGED <<staging, next_rid, clock>>
       ELSE IF context.has_delta /\ has_changes(context.delta)
       THEN /\ \E out \in load_delta_outcomes(staging, next_rid, context.delta,
                                              primary_keys, clock, to_sql_commits) :
                  /\ staging' = out.table
                  /\ next_rid' = out.rid
                  /\ context' =
                        IF out.raised
                        THEN StageRaised([context EXCEPT !.staging_load = "delta"],
                                         "DatabaseError")
                        ELSE StageDone([context EXCEPT !.staging_load = "delta"])
            /\ clock' = clock + 1
       ELSE /\ staging' = putconn(to_sql_done(staging,
                                              to_sql_replace(next_rid, context.load_df),
                                              to_sql_commits),
                                  to_sql_replace(next_rid, context.load_df))
            /\ next_rid' = next_rid + Len(context.load_df)
            /\ context' = StageDone([context EXCEPT !.staging_load = "full"])
            /\ clock' = clock + 1
    /\ UNCHANGED <<files, state_dir, config, persisted, loader, delta, call, runs, fileops,
                   fingerprinted, pipeline, query>>

\* AggregationStage.execute_async (lines 248-289): the aggregated table it
\* writes is outside this model; the aggregator's queries complete or raise.
AggregationStage ==
    /\ context.running
    /\ StageClasses[context.stage] = "AggregationStage"
    /\ \/ context' = StageDone(context)
       \/ enable_aggregation /\ context' = StageRaised(context, "DatabaseError")
    /\ UNCHANGED <<files, state_dir, config, persisted, loader, delta, call, staging,
                   next_rid, clock, runs, fileops, fingerprinted, pipeline, query>>

\* ProductionLoadStage.execute_async (lines 299-335): the production table it
\* writes is outside this model; a failure of its query is logged, not raised.
ProductionLoadStage ==
    /\ context.running
    /\ StageClasses[context.stage] = "ProductionLoadStage"
    /\ context' = StageDone(context)
    /\ UNCHANGED <<files, state_dir, config, persisted, loader, delta, call, staging,
                   next_rid, clock, runs, fileops, fingerprinted, pipeline, query>>

\* The pipeline beside direct uses of the DeltaLoader of the same entity type
\* (load_entity_incrementally on a snapshot at "p1"), which share the state
\* directory and the staging table; one call at a time.
LoaderIdle == ~context.running /\ runs < PipelineRuns

InitPipeline ==
    /\ Init
    /\ Len(primary_keys) = 1
    /\ workload.runs = DeepRuns

NextPipeline ==
    \/ UnifiedPipeline_init
    \/ process_entity
    \/ UTF8CleaningStage
    \/ DeltaDetectionStage
    \/ StagingLoadStage
    \/ AggregationStage
    \/ ProductionLoadStage
    \/ LoaderIdle /\ WriteSnapshot("p1")
    \/ LoaderIdle /\ NewLoader
    \/ LoaderIdle /\ DetectChanges("p1")
    \/ LoadDelta
    \/ InsertPhase
    \/ UpdatePhase
    \/ DeletePhase

SpecPipeline == InitPipeline /\ [][NextPipeline]_vars

\* ------------------------------------------------------------ retry loops
\* PostgreSQLManager.execute_query (connection_manager.py) and
\* WorkflowAPIClient.execute_workflow (workflow_api/client.py).

\* Faulty variant: the loop makes one attempt more than retry.
may_attempt_once_more(attempt, retry) == attempt <= retry
\* while attempt < retry
may_attempt(attempt, retry) == attempt < retry

\* What a successful attempt can return: the rows fetched or the JSON body.
ResultPool == {"r1", "r2"}

\* conn.rollback() and conn.commit() on the statements pending on the
\* connection: the number pending afterwards, and the number committed.
conn_rollback(pending) == 0
committed_by(pending) == pending

\* One pass through `with self.get_cursor() as cursor` (lines 115-139, 171-181)
\* on a connection with `pending` uncommitted statements: getconn raises, or
\* cursor.execute raises, or it runs and fetchall raises, or the block is left
\* and conn.commit() raises, or the commit succeeds. Every exception raised
\* under the cursor reaches the except clause of get_cursor, which rolls back.
get_cursor_outcomes(pending, fetch) ==
    {[ok |-> FALSE, error |-> "PoolError", result |-> "none",
      pending |-> pending, committed |-> 0],
     [ok |-> FALSE, error |-> "execute", result |-> "none",
      pending |-> conn_rollback(pending), committed |-> 0],
     [ok |-> FALSE, error |-> "commit", result |-> "none",
      pending |-> conn_rollback(pending + 1), committed |-> 0]}
    \cup (IF fetch
          THEN {[ok |-> FALSE, error |-> "fetchall", result |-> "none",
                 pending |-> conn_rollback(pending + 1), committed |-> 0]}
          ELSE {})
    \cup {[ok |-> TRUE, error |-> "none", result |-> r,
           pending |-> 0, committed |-> committed_by(pending + 1)] :
             r \in IF fetch THEN ResultPool ELSE {"None"}}

\* One pass through the try block of execute_workflow (lines 107-115):
\* session.get raises, raise_for_status raises, response.json raises, or the
\* JSON body is returned.
workflow_outcomes ==
    {[ok |-> FALSE, error |-> e, result |-> "none", pending |-> 0, committed |-> 0] :
        e \in {"ConnectionError", "HTTPError", "JSONDecodeError"}}
    \cup {[ok |-> TRUE, error |-> "none", result |-> r, pending |-> 0, committed |-> 0] :
             r \in ResultPool}

\* The call is entered: attempt = 0, last_error = None. With nothing to
\* attempt (retry = 0) the loop is skipped and `raise last_error` raises the
\* TypeError of raising None.
Called(fn, retry, fetch) ==
    [NoQuery EXCEPT !.fn = fn, !.retry = retry, !.fetch = fetch,
                    !.status = IF may_attempt(0, retry) THEN "running" ELSE "raised",
                    !.error = IF may_attempt(0, retry) THEN "none" ELSE "TypeError"]

\* One pass of the retry loop (lines 169-188; client.py 105-125) with outcome
\* out: the result is returned, or attempt is incremented and last_error set,
\* and when the loop condition fails last_error is raised.
Attempted(q, out) ==
    IF out.ok
    THEN [q EXCEPT !.attempts = Append(@, out), !.status = "returned",
                   !.result = out.result, !.pending = out.pending,
                   !.committed = @ + out.committed]
    ELSE [q EXCEPT !.attempts = Append(@, out), !.attempt = @ + 1,
                   !.error = out.error, !.pending = out.pending,
                   !.status = IF may_attempt(q.attempt + 1, q.retry)
                              THEN "running" ELSE "raised"]

execute_query ==
    /\ query.status # "running"
    /\ \E n \in 0..MaxRetry, fetch \in BOOLEAN :
          query' = Called("execute_query", n, fetch)
    /\ UNCHANGED <<files, state_dir, config, persisted, loader, delta, call, staging, next_rid,
                   clock, runs, fileops, fingerprinted, pipeline_vars>>

QueryAttempt ==
    /\ query.fn = "execute_query"
    /\ query.status = "running"
    /\ \E out \in get_cursor_outcomes(query.pending, query.fetch) :
          query' = Attempted(query, out)
    /\ UNCHANGED <<files, state_dir, config, persisted, loader, delta, call, staging, next_rid,
                   clock, runs, fileops, fingerprinted, pipeline_vars>>

execute_workflow ==
    /\ query.status # "running"
    /\ \E n \in 0..MaxRetry : query' = Called("execute_workflow", n, FALSE)
    /\ UNCHANGED <<files, state_dir, config, persisted, loader, delta, call, staging, next_rid,
                   clock, runs, fileops, fingerprinted, pipeline_vars>>

WorkflowAttempt ==
    /\ query.fn = "execute_workflow"
    /\ query.status = "running"
    /\ \E out \in workflow_outcomes : query' = Attempted(query, out)
    /\ UNCHANGED <<files, state_dir, config, persisted, loader, delta, call, staging, next_rid,
                   clock, runs, fileops, fingerprinted, pipeline_vars>>

InitRetry ==
    /\ Init
    /\ workload.runs = DeepRuns
    /\ schema_columns = {"id"}
    /\ to_sql_commits

NextRetry ==
    \/ execute_query
    \/ QueryAttempt
    \/ execute_workflow
    \/ WorkflowAttempt

SpecRetry == InitRetry /\ [][NextRetry]_vars

\* ------------------------------------------------ LoadState persistence
\* The text of a timestamp is the sequence of its characters.
Digit == <<"0", "1", "2", "3", "4", "5", "6", "7", "8", "9">>
DigitValue(c) == CHOOSE d \in 0..9 : Digit[d + 1] = c

\* n in decimal, zero-padded to w digits.
RECURSIVE zfill(_, _)
zfill(n, w) ==
    IF w = 0 THEN <<>> ELSE zfill(n \div 10, w - 1) \o <<Digit[(n % 10) + 1]>>

\* The number a run of digits denotes.
RECURSIVE int(_)
int(text) ==
    IF text = <<>> THEN 0
    ELSE 10 * int(SubSeq(text, 1, Len(text) - 1)) + DigitValue(text[Len(text)])

\* A datetime, here the minute, second and microsecond of its hour.
datetime(mi, sec, us) == [minute |-> mi, second |-> sec, microsecond |-> us]

\* datetime.isoformat(timespec="seconds"): the microseconds are not written.
isoformat_seconds(t) == zfill(t.minute, 2) \o <<":">> \o zfill(t.second, 2)

\* datetime.isoformat(): "MM:SS", then ".ffffff" unless microsecond is 0.
isoformat(t) ==
    isoformat_seconds(t) \o
    (IF t.microsecond = 0 THEN <<>> ELSE <<".">> \o zfill(t.microsecond, 6))

\* datetime.fromisoformat.
fromisoformat(text) ==
    datetime(int(SubSeq(text, 1, 2)), int(SubSeq(text, 4, 5)),
             IF Len(text) > 5 THEN int(SubSeq(text, 7, Len(text))) ELSE 0)

\* JSON values.
JString(v) == <<"string", v>>
JNumber(v) == <<"number", v>>
JArray(v) == <<"array", v>>
JObject(v) == <<"object", v>>

\* The dataclass's generated __init__: cls(**data).
cls(data) ==
    [exists |-> TRUE,
     entity_type |-> data.entity_type,
     last_load_timestamp |-> data.last_load_timestamp,
     last_csv_path |-> data.last_csv_path,
     last_row_count |-> data.last_row_count,
     last_data_fingerprint |-> data.last_data_fingerprint,
     column_schema |-> data.column_schema,
     primary_keys |-> data.primary_keys,
     metadata |-> data.metadata]

\* Faulty variant: the timestamp is written to the second.
to_dict_to_the_second(self) ==
    [f \in DOMAIN self \ {"exists"} |->
        IF f = "last_load_timestamp" THEN isoformat_seconds(self[f]) ELSE self[f]]
\* LoadState.to_dict: asdict(self) with the timestamp in ISO format.
to_dict(self) ==
    [f \in DOMAIN self \ {"exists"} |->
        IF f = "last_load_timestamp" THEN isoformat(self[f]) ELSE self[f]]

\* LoadState.from_dict.
from_dict(data) ==
    cls([data EXCEPT !["last_load_timestamp"] = fromisoformat(@)])

\* json.dump of the dict of a LoadState: strings, a number, two arrays of
\* strings, and the metadata dict as an object of numbers.
json_dump(data) ==
    JObject([f \in DOMAIN data |->
        CASE f = "last_load_timestamp" -> JString(data[f])
          [] f = "last_row_count" -> JNumber(data[f])
          [] f \in {"column_schema", "primary_keys"} ->
                JArray([i \in DOMAIN data[f] |-> JString(data[f][i])])
          [] f = "metadata" ->
                JObject([k \in {it[1] : it \in data[f]} |->
                            JNumber((CHOOSE it \in data[f] : it[1] = k)[2])])
          [] OTHER -> JString(data[f])])

\* json.load: the value a JSON value denotes.
RECURSIVE json_load(_)
json_load(doc) ==
    CASE doc[1] \in {"string", "number"} -> doc[2]
      [] doc[1] = "array" -> [i \in DOMAIN doc[2] |-> json_load(doc[2][i])]
      [] doc[1] = "object" /\ "metadata" \in DOMAIN doc[2] ->
            [f \in DOMAIN doc[2] |->
                IF f = "metadata"
                THEN {<<k, json_load(doc[2][f][2][k])>> : k \in DOMAIN doc[2][f][2]}
                ELSE json_load(doc[2][f])]

\* The file LoadState.save writes.
state_file_written(self) == [exists |-> TRUE, json |-> json_dump(to_dict(self))]

\* LoadState.load on the files of a state directory.
state_file_loaded(e, dir) ==
    IF ~dir[state_file(e)].exists THEN None
    ELSE from_dict(json_load(dir[state_file(e)].json))

\* The LoadState objects saved: both entity types, timestamps with and
\* without microseconds, first-run and diff metadata.
DatetimePool ==
    {datetime(mi, sec, us) : mi \in {0, 59}, sec \in {7, 30}, us \in {0, 5, 120000}}
LoadStatePool ==
    {cls([entity_type |-> e, last_load_timestamp |-> t, last_csv_path |-> "p1",
          last_row_count |-> n, last_data_fingerprint |-> "h1",
          column_schema |-> sc, primary_keys |-> <<"id">>, metadata |-> m]) :
        e \in EntityTypes, t \in DatetimePool, n \in {0, 2},
        sc \in {<<"id", "name">>, <<"name", "id">>},
        m \in {NoMeta, {<<"new_count", 2>>, <<"modified_count", 0>>,
                        <<"deleted_count", 1>>}}}

InitPersistence ==
    /\ Init
    /\ workload.runs = DeepRuns
    /\ schema_columns = {"id"}
    /\ to_sql_commits

\* s.save(dir) for a LoadState s.
LoadState_save ==
    \E self \in LoadStatePool :
       /\ ~persisted.called
       /\ persisted.saves < MaxSaves
       /\ persisted' =
             [persisted EXCEPT
                !.dir = [@ EXCEPT ![state_file(self.entity_type)] =
                                      state_file_written(self)],
                !.saved = [@ EXCEPT ![self.entity_type] = self],
                !.saves = @ + 1]
       /\ UNCHANGED <<files, state_dir, config, loader, delta, call, staging,
                      next_rid, clock, runs, fileops, fingerprinted,
                      pipeline_vars, query>>

\* LoadState.load(entity_type, dir).
LoadState_load ==
    \E e \in EntityTypes :
       /\ ~persisted.called
       /\ persisted' = [persisted EXCEPT
                           !.called = TRUE,
                           !.entity_type = e,
                           !.loaded = state_file_loaded(e, persisted.dir)]
       /\ UNCHANGED <<files, state_dir, config, loader, delta, call, staging,
                      next_rid, clock, runs, fileops, fingerprinted,
                      pipeline_vars, query>>

NextPersistence ==
    \/ LoadState_save
    \/ LoadState_load

SpecPersistence == InitPersistence /\ [][NextPersistence]_vars

\* ------------------------------------------------- vocabulary of the claims
\* While a DeltaResult is pending no file is written or removed, so the
\* snapshots the last detect_changes call read are still in place.
Current == files[call.current_csv]
Previous == files[loader.previous_state.last_csv_path]

Str(v) == IF v = NaN THEN "nan" ELSE v

\* The key of a row: the string forms of its primary-key values joined by "_".
KeyOfRow(r) ==
    IF Len(primary_keys) = 1 THEN Str(r["id"]) ELSE Str(r["id"]) \o "_" \o Str(r["sub"])

RowKeys(rows) == {KeyOfRow(rows[i]) : i \in 1..Len(rows)}

UniqueKeys(rows) ==
    \A i, j \in 1..Len(rows) : KeyOfRow(rows[i]) = KeyOfRow(rows[j]) => i = j

RowWithKey(rows, k) == rows[CHOOSE i \in 1..Len(rows) : KeyOfRow(rows[i]) = k]

DetectStep == runs' # runs
LoadStep == delta.exists /\ ~delta'.exists

Returned == delta.exists /\ call.outcome = "ok"

\* A snapshot that is in storage and has a header line and rows to parse; the
\* failure of reading one that is not.
Readable(f) == f.exists /\ f # EmptyFile
ReadFailure(f) == IF f.exists THEN "EmptyDataError" ELSE "FileNotFoundError"

\* --------------------------------------------------------------------- C1
\* C1: when the loader holds a previous LoadState whose snapshot is readable
\* and keys are unique within each snapshot, new_records is exactly the current
\* rows whose key is absent from the previous snapshot, deleted_record_ids is
\* exactly the previous keys absent from the current snapshot, and every key in
\* both is in modified_records (with the current row) if the two rows differ in
\* some field and in unchanged_record_ids otherwise.
C1_Classification ==
    (/\ Returned
     /\ loader.previous_state.exists
     /\ Previous.exists
     /\ UniqueKeys(Current.rows)
     /\ UniqueKeys(Previous.rows))
    => LET cur == Current.rows
           prev == Previous.rows
           absent == {i \in 1..Len(cur) : KeyOfRow(cur[i]) \notin RowKeys(prev)}
           differing == {k \in RowKeys(cur) \cap RowKeys(prev) :
                            RowWithKey(cur, k) # RowWithKey(prev, k)}
       IN /\ Range(delta.new_records) = {cur[i] : i \in absent}
          /\ Len(delta.new_records) = Cardinality(absent)
          /\ delta.deleted_record_ids = RowKeys(prev) \ RowKeys(cur)
          /\ Range(delta.modified_records) = {RowWithKey(cur, k) : k \in differing}
          /\ Len(delta.modified_records) = Cardinality(differing)
          /\ delta.unchanged_record_ids = (RowKeys(cur) \cap RowKeys(prev)) \ differing

C1_Witness ==
    /\ Returned
    /\ loader.previous_state.exists
    /\ Previous.exists
    /\ UniqueKeys(Current.rows)
    /\ UniqueKeys(Previous.rows)
    /\ Len(Previous.rows) = 2
    /\ Len(delta.modified_records) = 1
    /\ Cardinality(delta.deleted_record_ids) = 1

\* --------------------------------------------------------------------- C2
\* C2: in every DeltaResult returned, the keys of new_records, the keys of
\* modified_records, deleted_record_ids and unchanged_record_ids are pairwise
\* disjoint and their union is the current snapshot's keys together with the
\* keys of the previous snapshot the run read (none when it read none).
PreviousKeysRead == IF call.branch = "diff" THEN RowKeys(Previous.rows) ELSE {}

C2_Partition ==
    Returned
    => LET n == RowKeys(delta.new_records)
           m == RowKeys(delta.modified_records)
           d == delta.deleted_record_ids
           u == delta.unchanged_record_ids
       IN /\ n \cap m = {} /\ n \cap d = {} /\ n \cap u = {}
          /\ m \cap d = {} /\ m \cap u = {} /\ d \cap u = {}
          /\ n \cup m \cup d \cup u = RowKeys(Current.rows) \cup PreviousKeysRead

C2_Witness ==
    /\ Returned
    /\ call.branch = "diff"
    /\ Len(delta.modified_records) = 1
    /\ Cardinality(delta.unchanged_record_ids) = 1

\* --------------------------------------------------------------------- C3
\* C3: a detect_changes call made while no LoadState is persisted, on a
\* readable snapshot of N rows with the expected columns, returns the N rows
\* as new, nothing modified, deleted or unchanged, and persists a LoadState
\* with last_row_count = N and last_csv_path = the current snapshot.
C3_FirstRun ==
    [][(DetectStep /\ ~state_store.exists /\ call'.outcome = "ok")
       => /\ delta'.exists
          /\ delta'.new_records = files[call'.current_csv].rows
          /\ delta'.modified_records = <<>>
          /\ delta'.deleted_record_ids = {}
          /\ delta'.unchanged_record_ids = {}
          /\ state_store'.exists
          /\ state_store'.last_row_count = Len(files[call'.current_csv].rows)
          /\ state_store'.last_csv_path = call'.current_csv]_vars

C3_Witness ==
    /\ Returned
    /\ runs = 1
    /\ Len(delta.new_records) = 2
    /\ state_store.last_row_count = 2
    /\ state_store.last_csv_path = call.current_csv

\* --------------------------------------------------------------------- C4
\* C4: a detect_changes call by a loader whose LoadState references a snapshot
\* that is no longer in storage, on a readable current snapshot with the
\* expected columns, does not raise and returns every current row as new,
\* with nothing modified, deleted or unchanged.
C4_MissingPreviousAllNew ==
    [][(/\ DetectStep
        /\ loader.previous_state.exists
        /\ ~files[loader.previous_state.last_csv_path].exists
        /\ files[call'.current_csv].exists
        /\ schema_columns \subseteq files[call'.current_csv].columns)
       => /\ call'.outcome = "ok"
          /\ delta'.exists
          /\ delta'.new_records = files[call'.current_csv].rows
          /\ delta'.modified_records = <<>>
          /\ delta'.deleted_record_ids = {}
          /\ delta'.unchanged_record_ids = {}]_vars

C4_Witness ==
    /\ Returned
    /\ loader.previous_state.exists
    /\ ~Previous.exists
    /\ Len(delta.new_records) = 1

\* --------------------------------------------------------------------- C5
\* C5: a detect_changes call by a loader whose LoadState references a missing
\* snapshot persists, before returning, a fresh LoadState for the current
\* snapshot.
C5_MissingPreviousPersists ==
    [][(/\ DetectStep
        /\ loader.previous_state.exists
        /\ ~files[loader.previous_state.last_csv_path].exists
        /\ call'.outcome = "ok")
       => /\ state_store'.exists
          /\ state_store'.last_csv_path = call'.current_csv
          /\ state_store'.last_row_count = Len(files[call'.current_csv].rows)
          /\ state_store'.last_load_timestamp = clock]_vars

\* --------------------------------------------------------------------- C6
\* C6: detect_changes on a current snapshot it can read raises the schema error
\* (ValueError) exactly when an expected column is absent from it, whatever
\* extra columns it has; when it raises, no DeltaResult is returned and the
\* persisted LoadState is unchanged.
C6_SchemaValidation ==
    [][(DetectStep /\ Readable(files[call'.current_csv]))
       => /\ (call'.outcome = "ValueError")
               <=> (\E c \in schema_columns : c \notin files[call'.current_csv].columns)
          /\ (call'.outcome = "ValueError")
               => (~delta'.exists /\ state_store' = state_store)]_vars

\* A run rejected for a missing column although a LoadState was persisted.
C6_Witness ==
    /\ call.outcome = "ValueError"
    /\ fileops = 0
    /\ ~delta.exists
    /\ state_store.exists
    /\ "name" \notin Current.columns

\* A snapshot with a column outside the expected ones was accepted.
C6_WitnessExtra ==
    /\ Returned
    /\ Current.columns \ schema_columns # {}

\* ------------------------------------------------ staging vocabulary
RowsForKey(table, k) == {r \in table : KeyOfRow(r.data) = k}

\* --------------------------------------------------------------------- C7
\* C7: when the soft-delete phase of load_delta_to_staging completes for a
\* delta with a deleted key k whose row is in staging, under a single-column or
\* a two-column primary key, that row is still in staging afterwards, with
\* _is_deleted = TRUE and _load_type = 'delete'.
C7_SoftDeleteFlags ==
    [][(LoadStep /\ call'.load = "complete")
       => \A k \in delta.deleted_record_ids : \A r \in RowsForKey(staging, k) :
             \E r2 \in staging' :
                /\ r2.rid = r.rid
                /\ r2._is_deleted
                /\ r2._load_type = "delete"]_vars

\* --------------------------------------------------------------------- C8
\* C8: no step removes a soft-deleted row from the staging table.
C8_SoftDeletedRowsStay ==
    [][\A r \in staging : r._is_deleted => \E r2 \in staging' : r2.rid = r.rid]_vars

\* --------------------------------------------------------------------- C9
\* C9: the staging table holds at most one row per primary-key value.
C9_OneRowPerKey ==
    \A r1, r2 \in staging : KeyOfRow(r1.data) = KeyOfRow(r2.data) => r1.rid = r2.rid

\* -------------------------------------------------------------------- C10
\* C10: load_delta_to_staging on a DeltaResult without new, modified or
\* deleted records leaves the staging table as it was: no row inserted,
\* removed or updated, no load timestamp changed.
C10_NoChangesNoOp ==
    [][(/\ LoadStep
        /\ delta.new_records = <<>>
        /\ delta.modified_records = <<>>
        /\ delta.deleted_record_ids = {})
       => staging' = staging /\ next_rid' = next_rid]_vars

\* A delta with only unchanged keys was loaded over a populated staging table.
C10_Witness ==
    /\ call.load = "skipped"
    /\ call.branch = "diff"
    /\ staging # {}

\* ------------------------------------------------ vocabulary of the phases
\* The step in which phase ph of the pending call runs, to its end or to the
\* statement that raises.
PhaseStep(ph) == delta.exists /\ call'.phases = Append(call.phases, ph)

PhaseCompleted(ph) == PhaseStep(ph) /\ call'.load # "failed"

\* The step in which load_delta_to_staging returns without raising.
LoadReturns == LoadStep /\ call'.load = "complete"

\* -------------------------------------------------------------------- C11
\* C11: when load_delta_to_staging returns without raising, every row of
\* delta.new_records is in the committed staging table with
\* _load_type = 'insert', _is_deleted = FALSE and the load timestamp, and the
\* insert phase leaves the rows staged before it as they were.
C11_NewRecordsStaged ==
    [][/\ LoadReturns
          => \A i \in 1..Len(delta.new_records) :
                \E r \in staging' :
                   /\ r.data = delta.new_records[i]
                   /\ r._load_type = "insert"
                   /\ ~r._is_deleted
                   /\ r._load_timestamp = clock
       /\ PhaseCompleted("insert") => staging \subseteq staging']_vars

\* -------------------------------------------------------------------- C12
\* C12: under a single-column or a two-column primary key, the update phase
\* removes exactly the staged rows whose key is a key of modified_records,
\* leaves every other staged row as it was, and stages each row of
\* modified_records with _load_type = 'update' and _is_deleted = FALSE.
C12_UpdateReplacesModified ==
    [][PhaseCompleted("update")
       => LET mk == RowKeys(delta.modified_records)
          IN /\ \A r \in staging :
                   IF KeyOfRow(r.data) \in mk
                   THEN \A r2 \in staging' : r2.rid # r.rid
                   ELSE r \in staging'
             /\ \A i \in 1..Len(delta.modified_records) :
                   \E r \in staging' \ staging :
                      /\ r.data = delta.modified_records[i]
                      /\ r._load_type = "update"
                      /\ ~r._is_deleted]_vars

\* -------------------------------------------------------------------- C13
\* C13: the update phase commits its DELETE and its insert together: when it
\* raises, the committed staging table is as it was before the phase, and in
\* every case each key of modified_records that had a staged row before the
\* phase has one after it.
C13_UpdateAtomic ==
    [][PhaseStep("update")
       => /\ call'.load = "failed" => staging' = staging
          /\ \A k \in RowKeys(delta.modified_records) :
                RowsForKey(staging, k) # {} => RowsForKey(staging', k) # {}]_vars

\* An update phase has raised and the staged row of a modified key is still
\* the old version.
C13_Witness ==
    /\ call.failed = "update"
    /\ fileops = 0
    /\ \E r \in staging : \E i \in 1..Len(Current.rows) :
          /\ KeyOfRow(Current.rows[i]) = KeyOfRow(r.data)
          /\ Current.rows[i] # r.data

\* -------------------------------------------------------------------- C14
\* C14: when a phase of load_delta_to_staging raises, the call ends as failed,
\* the committed staging table keeps what the phases before it committed (the
\* failing step changes nothing in it), and no phase runs after the failure.
C14_PhaseFailure ==
    [][/\ \A ph \in {"insert", "update", "delete"} :
            (PhaseStep(ph) /\ call'.failed = ph)
            => /\ call'.load = "failed"
               /\ ~delta'.exists
               /\ staging' = staging
       /\ call.load = "failed"
            => /\ \A ph \in {"insert", "update", "delete"} :
                     call'.phases # Append(call.phases, ph)
               /\ call'.load \in {"failed", "none"}]_vars

\* The update phase raised after the insert phase had staged its rows, which
\* are still staged.
C14_Witness ==
    /\ call.load = "failed"
    /\ call.phases = <<"insert", "update">>
    /\ \E r \in staging : r._load_type = "insert" /\ r._load_timestamp = clock - 1

\* -------------------------------------------------------------------- C15
\* C15: within one load_delta_to_staging call the insert phase runs first, the
\* update phase only after the insert phase when there are new records, and
\* the soft-delete phase only after the insert and update phases when there
\* are new and modified records.
C15_PhaseOrder ==
    [][/\ PhaseStep("insert") => call.phases = <<>>
       /\ PhaseStep("update")
            => /\ Len(delta.new_records) > 0 => call.phases = <<"insert">>
               /\ Len(delta.new_records) = 0 => call.phases = <<>>
       /\ PhaseStep("delete")
            => /\ Len(delta.new_records) > 0 => "insert" \in Range(call.phases)
               /\ Len(delta.modified_records) > 0 => "update" \in Range(call.phases)
               /\ "delete" \notin Range(call.phases)]_vars

\* A call replaced the modified records and then flagged the deleted ones.
C15_Witness ==
    /\ call.load = "complete"
    /\ call.phases = <<"update", "delete">>
    /\ \E r \in staging : r._load_type = "update" /\ r._load_timestamp = clock - 1
    /\ \E r \in staging : r._load_type = "delete" /\ r._load_timestamp = clock - 1

\* -------------------------------------------------------------------- C16
\* C16: the state directory holds one LoadState file per entity type; every
\* detect_changes call that returns a DeltaResult leaves in the file of its
\* entity type a LoadState with last_csv_path = the current path,
\* last_row_count = the number of current rows, the expected columns, the
\* primary keys and, after a diff, the counts of new, modified and deleted
\* records, and leaves the LoadState of every other entity type as it was.
C16_StateStore ==
    [][(DetectStep /\ call'.outcome = "ok")
       => /\ DOMAIN state_dir' = StateFiles
          /\ state_store'.exists
          /\ state_store'.last_csv_path = call'.current_csv
          /\ state_store'.last_row_count = Len(files[call'.current_csv].rows)
          /\ state_store'.column_schema = schema_columns
          /\ state_store'.primary_keys = primary_keys
          /\ call'.branch = "diff"
               => state_store'.metadata
                    = {<<"new_count", Len(delta'.new_records)>>,
                       <<"modified_count", Len(delta'.modified_records)>>,
                       <<"deleted_count", Cardinality(delta'.deleted_record_ids)>>}
          /\ \A e \in EntityTypes \ {entity_type} :
                load(state_dir', e) = load(state_dir, e)]_vars

\* -------------------------------------------------------------------- C17
\* C17: when pd.read_csv fails on the current snapshot, or on the previous
\* snapshot that the loader's LoadState references and that is in storage,
\* detect_changes raises that failure, returns no DeltaResult and leaves the
\* state directory as it was.
C17_UnreadableSnapshot ==
    [][DetectStep
       => LET current == files[call'.current_csv]
              previous == files[loader.previous_state.last_csv_path]
          IN /\ ~Readable(current)
                  => /\ call'.outcome = ReadFailure(current)
                     /\ ~delta'.exists
                     /\ state_dir' = state_dir
             /\ (/\ Readable(current)
                 /\ schema_columns \subseteq current.columns
                 /\ loader.previous_state.exists
                 /\ previous.exists
                 /\ ~Readable(previous))
                  => /\ call'.outcome = ReadFailure(previous)
                     /\ ~delta'.exists
                     /\ state_dir' = state_dir]_vars

\* A run failed on the previous snapshot, which is in storage and cannot be
\* parsed, while the current one is readable.
C17_Witness ==
    /\ call.outcome = "EmptyDataError"
    /\ fileops = 0
    /\ ~delta.exists
    /\ Readable(Current)
    /\ loader.previous_state.exists
    /\ Previous = EmptyFile
    /\ state_store.exists

\* -------------------------------------------------------------------- C18
\* The (field, value) pairs of a record, and the record as a row of a frame.
Pairs(items) == Range(items)

RowOf(items) == [c \in {it[1] : it \in Range(items)} |->
                    (CHOOSE it \in Range(items) : it[1] = c)[2]]

\* C18: two records get the same fingerprint exactly when they have the same
\* set of (field, value) pairs, in whatever order their fields are declared;
\* and the fingerprint of a record is the one detect_changes compares for the
\* row with those fields.
C18_FingerprintPure ==
    fingerprinted.done
    => /\ (Pairs(fingerprinted.a) = Pairs(fingerprinted.b))
            <=> (fingerprinted.fa = fingerprinted.fb)
       /\ fingerprinted.fa = compute_record_fingerprint(RowOf(fingerprinted.a))

\* Two records with the same three fields declared in different orders got the
\* same fingerprint.
C18_Witness ==
    /\ fingerprinted.done
    /\ Len(fingerprinted.a) = 3
    /\ fingerprinted.a # fingerprinted.b
    /\ Pairs(fingerprinted.a) = Pairs(fingerprinted.b)
    /\ fingerprinted.fa = fingerprinted.fb

\* Two records that differ in one value got different fingerprints.
C18_WitnessDiffer ==
    /\ fingerprinted.done
    /\ Len(fingerprinted.a) = 3
    /\ Cardinality(Pairs(fingerprinted.a) \ Pairs(fingerprinted.b)) = 1
    /\ fingerprinted.fa # fingerprinted.fb

\* -------------------------------------------------------------------- C19
\* C19: when load_delta_to_staging has raised, the next load_entity_incrementally
\* run on the same current snapshot (a new DeltaLoader, the same file) detects
\* again what is not applied: every current row without a live staged copy is
\* among its new or modified records, and every live staged key absent from
\* the snapshot is among its deleted ids.
C19_RetryDetectsAgain ==
    [][(/\ DetectStep
        /\ call.load = "failed"
        /\ fileops = 0
        /\ call'.current_csv = call.current_csv
        /\ loader.previous_state = state_store)
       => LET rows == files[call.current_csv].rows
              live == {s \in staging : ~s._is_deleted}
          IN /\ call'.outcome = "ok"
             /\ \A i \in 1..Len(rows) :
                   (\A s \in live : s.data # rows[i])
                   => rows[i] \in Range(delta'.new_records)
                                   \cup Range(delta'.modified_records)
             /\ \A s \in live :
                   KeyOfRow(s.data) \notin RowKeys(rows)
                   => KeyOfRow(s.data) \in delta'.deleted_record_ids]_vars

\* -------------------------------------------------------------------- C20
\* C20: every detect_changes call that returns a DeltaResult, also the second
\* of two calls on one DeltaLoader, diffs against the snapshot of the LoadState
\* persisted when it is called: the keys of its new records are the current
\* keys absent from that snapshot and its deleted ids are that snapshot's keys
\* absent from the current one.
C20_DiffsAgainstPersisted ==
    [][(/\ DetectStep
        /\ call'.outcome = "ok"
        /\ state_store.exists
        /\ Readable(files[state_store.last_csv_path]))
       => LET cur == RowKeys(files[call'.current_csv].rows)
              prev == RowKeys(files[state_store.last_csv_path].rows)
          IN /\ RowKeys(delta'.new_records) = cur \ prev
             /\ delta'.deleted_record_ids = prev \ cur]_vars

\* -------------------------------------------------------------------- C21
\* The detect_changes call of this step is a further run on the snapshot of the
\* last call: that call returned a DeltaResult, no file was written or removed
\* since, and the DeltaLoader of this run holds the LoadState now persisted.
RerunStep ==
    /\ DetectStep
    /\ call.outcome = "ok"
    /\ fileops = 0
    /\ call'.current_csv = call.current_csv
    /\ loader.previous_state = state_store

\* C21: a further run by a fresh DeltaLoader on the snapshot of a successful
\* detection run, the file unchanged, returns a DeltaResult without new,
\* modified or deleted records whose unchanged ids are the keys of the
\* snapshot, and loading a DeltaResult of a snapshot diffed against itself
\* leaves the staging table as it was.
C21_Idempotent ==
    [][/\ RerunStep
          => /\ call'.outcome = "ok"
             /\ ~has_changes(delta')
             /\ delta'.unchanged_record_ids = RowKeys(files[call.current_csv].rows)
       /\ (/\ LoadStep
           /\ call.branch = "diff"
           /\ loader.previous_state.last_csv_path = call.current_csv)
          => staging' = staging]_vars

\* -------------------------------------------------------------------- C22
\* load_entity_incrementally run after run without a failure of the load:
\* the incremental-load discipline, every phase running to its end.
InsertPhaseCompletes == InsertPhase /\ call'.load # "failed"
UpdatePhaseCompletes == UpdatePhase /\ call'.load # "failed"
DeletePhaseCompletes == DeletePhase /\ call'.load # "failed"

NextWithoutFailure ==
    \/ \E p \in Paths : WriteRetainingSnapshot(p)
    \/ NewLoader
    \/ \E p \in Paths : FreshDetectChanges(p)
    \/ LoadDelta
    \/ InsertPhaseCompletes
    \/ UpdatePhaseCompletes
    \/ DeletePhaseCompletes

SpecWithoutFailure == Init /\ [][NextWithoutFailure]_vars

\* The staging rows that are not soft-deleted.
Live(table) == {s \in table : ~s._is_deleted}

C25_PreviousValidated ==
    [][(/\ DetectStep
        /\ Readable(files[call'.current_csv])
        /\ schema_columns \subseteq files[call'.current_csv].columns
        /\ loader.previous_state.exists
        /\ Readable(files[loader.previous_state.last_csv_path]))
       => LET previous == files[loader.previous_state.last_csv_path]
          IN IF schema_columns \subseteq previous.columns
             THEN call'.outcome = "ok"
             ELSE call'.outcome = "ValueError" /\ state_dir' = state_dir]_vars

\* -------------------------------------------------------------------- C26
\* The rows of a snapshot under key k, and the first of them in file order.
Occurrences(rows, k) == {i \in 1..Len(rows) : KeyOfRow(rows[i]) = k}

FirstRow(rows, k) ==
    rows[CHOOSE i \in Occurrences(rows, k) : \A j \in Occurrences(rows, k) : i <= j]

\* The keys of both snapshots of the pending diff that are on more than one
\* row of one of them.
RepeatedCommonKeys ==
    {k \in RowKeys(Current.rows) \cap RowKeys(Previous.rows) :
        \/ Cardinality(Occurrences(Current.rows, k)) > 1
        \/ Cardinality(Occurrences(Previous.rows, k)) > 1}

\* C26: in a DeltaResult of the diff branch, a key of both snapshots that is on
\* more than one row of either is unchanged when the first row under it in the
\* current snapshot equals the first row under it in the previous snapshot
\* (equal fingerprints), and among the modified records otherwise.
C26_FirstMatchingRow ==
    (Returned /\ call.branch = "diff")
    => \A k \in RepeatedCommonKeys :
          IF FirstRow(Current.rows, k) = FirstRow(Previous.rows, k)
          THEN /\ k \in delta.unchanged_record_ids
               /\ k \notin RowKeys(delta.modified_records)
          ELSE /\ k \notin delta.unchanged_record_ids
               /\ k \in RowKeys(delta.modified_records)

\* A key on two rows of the current snapshot is unchanged although the second
\* of them differs from the previous snapshot's row.
C26_Witness ==
    /\ Returned
    /\ call.branch = "diff"
    /\ \E k \in RepeatedCommonKeys :
          /\ k \in delta.unchanged_record_ids
          /\ \E i \in Occurrences(Current.rows, k) :
                Current.rows[i] # FirstRow(Previous.rows, k)

\* A key on two rows of the previous snapshot is modified although the second
\* of them equals the current snapshot's row.
C26_WitnessModified ==
    /\ Returned
    /\ call.branch = "diff"
    /\ \E k \in RepeatedCommonKeys :
          /\ k \in RowKeys(delta.modified_records)
          /\ \E i \in Occurrences(Previous.rows, k) :
                Previous.rows[i] = FirstRow(Current.rows, k)

\* -------------------------------------------------------------------- C27
\* C27: after every step, a staging row has _is_deleted = TRUE exactly when
\* its _load_type is 'delete', and the rows an insert or update phase adds
\* have _is_deleted = FALSE and the load type of the phase.
C27_DeletedIffDeleteType ==
    [][/\ \A s \in staging' : s._is_deleted <=> s._load_type = "delete"
       /\ \A ph \in {"insert", "update"} :
             PhaseStep(ph)
             => \A s \in staging' \ staging :
                   ~s._is_deleted /\ s._load_type = ph]_vars

\* The staging table holds a soft-deleted row beside a row the update phase
\* wrote.
C27_Witness ==
    /\ \E s \in staging : s._is_deleted /\ s._load_type = "delete"
    /\ \E s \in staging : ~s._is_deleted /\ s._load_type = "update"

\* ------------------------------------------------ vocabulary of the pipeline
\* The step in which the loop of process_entity calls execute of a stage.
StageStep(stage) ==
    /\ context.running
    /\ context'.executed = Append(context.executed, stage)

\* The order of the stages of a process_entity call.
StageOrder ==
    <<"UTF8CleaningStage", "DeltaDetectionStage", "StagingLoadStage",
      "AggregationStage", "ProductionLoadStage">>

\* -------------------------------------------------------------------- C23
\* C23: when process_entity is called after a call for the same entity type
\* that returned without error, and the LoadState persisted is the one that
\* call saved, its delta detection diffs the cleaned input against the cleaned
\* data of that call: the new records are the rows whose key that data lacks,
\* the deleted ids are the keys of that data the input lacks, and a key of
\* both whose rows differ is among the modified records.
C23_SecondRunDiffsFirst ==
    [][(/\ StageStep("DeltaDetectionStage")
        /\ context.prior = "ok"
        /\ state_store.exists
        /\ state_store.last_csv_path = temp_csv
        /\ context'.error = "none")
       => LET first == files[temp_csv].rows
              second == context.cleaned_df.rows
          IN /\ RowKeys(context'.delta.new_records) = RowKeys(second) \ RowKeys(first)
             /\ context'.delta.deleted_record_ids = RowKeys(first) \ RowKeys(second)
             /\ \A k \in RowKeys(first) \cap RowKeys(second) :
                   FirstRow(second, k) # FirstRow(first, k)
                   => k \in RowKeys(context'.delta.modified_records)]_vars

\* -------------------------------------------------------------------- C24
\* C24: when the staging stage runs on a context whose delta has changes, it
\* applies the delta through load_delta_to_staging, and when it returns no
\* staging row under a deleted id is left with _is_deleted = FALSE.
C24_DeltaApplied ==
    [][(/\ StageStep("StagingLoadStage")
        /\ context.has_delta
        /\ has_changes(context.delta))
       => /\ context'.staging_load = "delta"
          /\ context'.error = "none"
             => \A s \in staging' :
                   KeyOfRow(s.data) \in context.delta.deleted_record_ids
                   => s._is_deleted]_vars

\* -------------------------------------------------------------------- C28
\* C28: a UnifiedPipeline holds its stages in the order cleaning, delta
\* detection, staging load, aggregation, production load; process_entity
\* executes them in that order, each at most once; when it returns, either
\* every stage was executed and the context carries no error, or the last
\* stage executed is the one that raised and the context carries 'error' and
\* 'failed_stage' naming it.
C28_StagesInOrder ==
    [][/\ (~pipeline.called /\ pipeline'.called)
          => pipeline'.error = "none" /\ pipeline'.stages = StageOrder
       /\ \E n \in 0..Len(StageOrder) : context'.executed = SubSeq(StageOrder, 1, n)
       /\ (context.running /\ context'.returned)
          => IF context'.error = "none"
             THEN context'.executed = StageOrder /\ context'.failed_stage = "none"
             ELSE context'.failed_stage = context'.executed[Len(context'.executed)]]_vars

\* -------------------------------------------------------------------- C29
\* The attempts of the call that failed.
FailedAttempts == {i \in 1..Len(query.attempts) : ~query.attempts[i].ok}

\* C29: a call of execute_query or execute_workflow with retry >= 1 makes at
\* most retry attempts and none after a successful one; it returns exactly
\* when an attempt succeeded, with the result of that attempt; it raises
\* exactly when retry attempts failed, with the error of the last one; and
\* every failed execute_query attempt leaves nothing pending on the
\* connection, so that exactly the successful execution is committed.
C29_Retry ==
    query.retry >= 1
    => LET n == Len(query.attempts)
       IN /\ n <= query.retry
          /\ \A i \in 1..n : query.attempts[i].ok => i = n
          /\ query.status = "returned"
             <=> (n > 0 /\ query.attempts[n].ok)
          /\ query.status = "returned" => query.result = query.attempts[n].result
          /\ query.status = "raised"
             <=> (n = query.retry /\ FailedAttempts = 1..n)
          /\ query.status = "raised" => query.error = query.attempts[n].error
          /\ query.pending = 0
          /\ query.committed = IF query.status = "returned" /\ query.fn = "execute_query"
                               THEN 1 ELSE 0

\* execute_query returned the rows of its third attempt after two attempts
\* that failed under the cursor.
C29_Witness ==
    /\ query.fn = "execute_query"
    /\ query.retry = 3
    /\ query.status = "returned"
    /\ Len(query.attempts) = 3
    /\ query.attempts[1].error = "execute"
    /\ query.attempts[2].error = "commit"

\* execute_workflow raised the error of its second and last attempt.
C29_WitnessRaised ==
    /\ query.fn = "execute_workflow"
    /\ query.retry = 2
    /\ query.status = "raised"
    /\ query.attempts[1].error = "ConnectionError"
    /\ query.error = "HTTPError"


\* -------------------------------------------------------------------- C30
\* C30: LoadState.load(entity_type, dir) returns the LoadState last saved in
\* dir for that entity type, equal to it in every field, and returns None when
\* none has been saved for it.
C30_RoundTrip ==
    persisted.called
    => LET s == persisted.saved[persisted.entity_type]
       IN  IF s.exists
           THEN /\ persisted.loaded.exists
                /\ \A f \in DOMAIN s : persisted.loaded[f] = s[f]
                /\ DOMAIN persisted.loaded = DOMAIN s
           ELSE ~persisted.loaded.exists

\* A state saved with microseconds in its timestamp and counts in its metadata
\* was loaded back while the other entity type's state lay beside it.
C30_Witness ==
    /\ persisted.called
    /\ persisted.saves = MaxSaves
    /\ \A e \in EntityTypes : persisted.saved[e].exists
    /\ persisted.saved[persisted.entity_type].last_load_timestamp.microsecond # 0
    /\ persisted.saved[persisted.entity_type].metadata # NoMeta
    /\ persisted.loaded.exists

\* LoadState.load was called for an entity type with no state saved while the
\* other entity type's state was saved.
C30_WitnessNone ==
    /\ persisted.called
    /\ ~persisted.saved[persisted.entity_type].exists
    /\ \E e \in EntityTypes : persisted.saved[e].exists

====
